---- MODULE Spec2Model ----
(***************************************************************************)
(* A model of the WinCNC post-processor, post-processors/wincnc_post.py.   *)
(*                                                                         *)
(* The module-level globals of the Python file are the variables that keep *)
(* their own names (OUTPUT_COMMENTS, LINENR, first_tool_change_skipped ...)*)
(* They live as long as the Python process and are shared by every call of *)
(* export.  One call of export is cut into steps at the places where the   *)
(* code loops: once per top-level object, once per call of parse, once per *)
(* command of a leaf.  The text is kept as a sequence of lines; a line is  *)
(* a record [nr, text] standing for the string "N<nr> <text>\n" (nr = 0:   *)
(* the line carries no line number).                                       *)
(*                                                                         *)
(* Left out: the editor dialog (FreeCAD.GuiUp is taken to be false, a      *)
(* headless run), the flags --no-show-editor, --no-tlo, --postamble and    *)
(* --precision, whose globals nothing else of the model reads, and the     *)
(* tabs and bracketed remarks inside the fixed G-code blocks.              *)
(***************************************************************************)
EXTENDS Integers, Sequences, FiniteSets, TLC

VARIABLES
    OUTPUT_COMMENTS,            \* global, line 85
    OUTPUT_HEADER,              \* global, line 86
    OUTPUT_LINE_NUMBERS,        \* global, line 87
    MODAL,                      \* global, line 89
    OUTPUT_DOUBLES,             \* global, line 91
    LINENR,                     \* global, line 93
    UNITS,                      \* global, line 97
    UNIT_SPEED_FORMAT,          \* global, line 98
    UNIT_FORMAT,                \* global, line 99
    PRECISION,                  \* global, line 104
    PREAMBLE,                   \* global, line 112 (as its lines)
    first_tool_change_skipped,  \* global, line 156
    pc,         \* where the process is: "idle", or inside export: "loop", "parse"
    call,       \* the arguments of the export call in progress (or of the last one)
    gcode,      \* export's local gcode
    objIdx,     \* export's position in objectslist (line 242)
    stack,      \* the frames of the nested calls of parse
    result,     \* how the last export call ended
    file,       \* the destination file
    log,        \* history: one record per command parse has handled in this call
    prev,       \* history: the export call before this one and how it ended
    runs        \* history: the number of export calls made so far

vars == << OUTPUT_COMMENTS, OUTPUT_HEADER, OUTPUT_LINE_NUMBERS, MODAL, OUTPUT_DOUBLES,
           LINENR, UNITS, UNIT_SPEED_FORMAT, UNIT_FORMAT, PRECISION, PREAMBLE,
           first_tool_change_skipped, pc, call, gcode, objIdx, stack, result, file,
           log, prev, runs >>

globals == << OUTPUT_COMMENTS, OUTPUT_HEADER, OUTPUT_LINE_NUMBERS, MODAL, OUTPUT_DOUBLES,
              LINENR, UNITS, UNIT_SPEED_FORMAT, UNIT_FORMAT, PRECISION, PREAMBLE,
              first_tool_change_skipped >>

settings == << OUTPUT_COMMENTS, OUTPUT_HEADER, OUTPUT_LINE_NUMBERS, MODAL, OUTPUT_DOUBLES,
               UNITS, UNIT_SPEED_FORMAT, UNIT_FORMAT, PRECISION, PREAMBLE >>

(***************************************************************************)
(* Bounds of the model.                                                    *)
(***************************************************************************)
\* export calls made in one behaviour of Spec
MaxRuns == 2
\* commands in a generated leaf of SpecLeaf
MaxCmds == 2

(***************************************************************************)
(* Program constants.                                                      *)
(***************************************************************************)
LINENR_START == 100
LINENR_STEP == 10
SKIP_FIRST_TOOLCHANGE == TRUE
COMMAND_SPACE == " "
GuiUp == FALSE

\* a line of text: nr = 0 when linenumber() returned ""
Line(nr, text) == [nr |-> nr, text |-> text]

DefaultPreamble ==
    << "G54 [Using G54 Workspace]", "G40 [Tool Cutter Compensation Off]",
       "G49 [Tool Length Offset Off]", "G90 [Absolute Mode]", "G53 Z0 [Lift Z to top]" >>

POSTAMBLE == << "G53 Z0 [Rapid Move Z to 0]", "M05 [Turn Spindle Off]" >>

PRE_OPERATION == << >>

POST_OPERATION == << >>

PRE_TOOL_CHANGE == << "G28Z", "G53Z", "M5", "G53 X0 Y0" >>

TOOL_CHANGE_NOTIFICATION(label) ==
    "G5 T2 M\"Please Change Tool to '" \o label \o "'. Press OK when done (Keep Dust Boot Off!).\""

TOOL_CHANGE ==
    << "G5 T2 M\"Press OK to Measure Tool.\"", "L21", "L210Z", "G53 Z0", "G53 X{TMX}Y{TMY}",
       "L91 G0 Z{TMD}", "L91 G1 Z-9 M28 F20 G31", "M37 Z{TM1} H{TP1}", "G53 Z0",
       "L91 G1 Z0 F50", "L212", "G0", "G53 X0 Y0",
       "G5 T2 M\"Please Replace Dust Boot. Press OK when done.\"", "G5 T2 M\"Continue Job?\"" >>

\* the order of parameters
params ==
    << "X", "Y", "Z", "A", "B", "C", "I", "J", "S", "T", "Q", "R", "F", "L", "H", "D", "P" >>

\* currLocation after currLocation.update(firstmove.Parameters)
firstmove == ("X" :> -1) @@ ("Y" :> -1) @@ ("Z" :> -1) @@ ("F" :> 0)

\* lastcommand = None
None == "None"

(***************************************************************************)
(* Numbers as text.  Path keeps a length in mm and a velocity in mm/s;     *)
(* Quantity.getValueAs gives the magnitude in the unit named, and format   *)
(* (value, '.<p>f') writes it with p decimals.  A value times 10^p is      *)
(* rounded to an integer and written out digit by digit.                   *)
(***************************************************************************)
RECURSIVE Pow10(_)
Pow10(p) == IF p = 0 THEN 1 ELSE 10 * Pow10(p - 1)

Abs(n) == IF n < 0 THEN 0 - n ELSE n

\* a / b rounded to the nearest integer, for a >= 0 and b > 0
RoundDiv(a, b) == (2 * a + b) \div (2 * b)

RECURSIVE Digits(_, _)
Digits(n, k) == IF k = 0 THEN "" ELSE Digits(n \div 10, k - 1) \o ToString(n % 10)

\* format(num / den, '.<p>f')
FormatFixed(num, den, p) ==
    LET scaled == RoundDiv(Abs(num) * Pow10(p), den)
    IN  (IF num < 0 THEN "-" ELSE "") \o ToString(scaled \div Pow10(p))
            \o (IF p = 0 THEN "" ELSE "." \o Digits(scaled % Pow10(p), p))

\* Units.Quantity(v, Length).getValueAs(unit), as the fraction <<num, den>>
LengthAs(v, unit) == IF unit = "in" THEN << 10 * v, 254 >> ELSE << v, 1 >>

\* Units.Quantity(v, Velocity).getValueAs(unit), as the fraction <<num, den>>
VelocityAs(v, unit) == IF unit = "in/min" THEN << 600 * v, 254 >> ELSE << 60 * v, 1 >>

(***************************************************************************)
(* linenumber(), lines 340-346: the value of LINENR after the call and the *)
(* number the returned prefix carries (0 for the empty prefix).            *)
(***************************************************************************)
linenumber(n) ==
    IF OUTPUT_LINE_NUMBERS = TRUE
    THEN [LINENR |-> n + LINENR_STEP, nr |-> n + LINENR_STEP]
    ELSE [LINENR |-> n, nr |-> 0]

\* for line in texts: out += linenumber() + line
RECURSIVE NumberLines(_, _)
NumberLines(texts, n) ==
    IF texts = << >>
    THEN [LINENR |-> n, lines |-> << >>]
    ELSE LET ln == linenumber(n)
             rest == NumberLines(Tail(texts), ln.LINENR)
         IN  [LINENR |-> rest.LINENR,
              lines |-> << Line(ln.nr, Head(texts)) >> \o rest.lines]

(***************************************************************************)
(* One command of a leaf, lines 385-481.                                   *)
(***************************************************************************)
\* a token of outstring: k = "cmd" for the command name (or the rewritten comment),
\* "param" for a parameter; l the name or the parameter letter; s the text
Token(k, l, s) == [k |-> k, l |-> l, s |-> s]

\* c.Name[0] == '('
IsComment(name) == name \in {"(a)", "(b)"}

\* command.replace('(', '[').replace(')', ']')
Bracket(name) == IF name = "(a)" THEN "[a]" ELSE IF name = "(b)" THEN "[b]" ELSE name

\* ModalStart with the modal check lost: the name is always kept
ModalStartNever(command, lastcommand) == << Token("cmd", command, command) >>

\* lines 387-394: outstring after the modal check
ModalStart(command, lastcommand) ==
    IF MODAL = TRUE /\ command = lastcommand
    THEN << >>
    ELSE << Token("cmd", command, command) >>

\* IsUnsupported with the interception of G99 lost
IsUnsupportedNever(name) == FALSE

\* line 404
IsUnsupported(name) == name = "G99"

\* ParamToken with the duplicate check of line 426 lost: an unchanged axis value is
\* written again
ParamTokenNoSuppress(param, c, currLocation) ==
    LET v == c.Parameters[param]
    IN  IF param = "F"
        THEN IF c.Name \notin {"G0", "G00"} /\ v > 0
                  /\ (currLocation[param] # v \/ OUTPUT_DOUBLES)
             THEN << Token("param", param,
                           param \o FormatFixed(VelocityAs(v, UNIT_SPEED_FORMAT)[1],
                                                VelocityAs(v, UNIT_SPEED_FORMAT)[2],
                                                PRECISION)) >>
             ELSE << >>
        ELSE IF param \in {"T", "H", "D", "S"}
        THEN << Token("param", param, param \o ToString(v)) >>
        ELSE << Token("param", param,
                      param \o FormatFixed(LengthAs(v, UNIT_FORMAT)[1],
                                           LengthAs(v, UNIT_FORMAT)[2], PRECISION)) >>

\* lines 409-431: what one parameter appends to outstring
ParamToken(param, c, currLocation) ==
    LET v == c.Parameters[param]
    IN  IF param = "F" /\ (currLocation[param] # v \/ OUTPUT_DOUBLES)
        THEN IF c.Name \notin {"G0", "G00"}
             THEN LET speed == VelocityAs(v, UNIT_SPEED_FORMAT)
                  IN  IF speed[1] > 0
                      THEN << Token("param", param,
                                    param \o FormatFixed(speed[1], speed[2], PRECISION)) >>
                      ELSE << >>
             ELSE << >>
        ELSE IF param \in {"T", "H", "D", "S"}
        THEN << Token("param", param, param \o ToString(v)) >>
        ELSE IF (~OUTPUT_DOUBLES) /\ param \in DOMAIN currLocation /\ currLocation[param] = v
        THEN << >>
        ELSE LET pos == LengthAs(v, UNIT_FORMAT)
             IN  << Token("param", param, param \o FormatFixed(pos[1], pos[2], PRECISION)) >>

\* lines 408-431: for param in params (from the i-th on)
RECURSIVE ParamTokens(_, _, _)
ParamTokens(i, c, currLocation) ==
    IF i > Len(params)
    THEN << >>
    ELSE (IF params[i] \in DOMAIN c.Parameters
          THEN ParamToken(params[i], c, currLocation)
          ELSE << >>) \o ParamTokens(i + 1, c, currLocation)

\* currLocation.update(c.Parameters), line 435
Update(currLocation, parameters) ==
    [l \in DOMAIN currLocation \cup DOMAIN parameters |->
        IF l \in DOMAIN parameters THEN parameters[l] ELSE currLocation[l]]

\* line 442
SkipToolChange(skipped) == SKIP_FIRST_TOOLCHANGE /\ ~skipped

\* lines 477-481: the text of the line, every token followed by COMMAND_SPACE
RECURSIVE Join(_)
Join(outstring) ==
    IF outstring = << >> THEN "" ELSE Head(outstring).s \o COMMAND_SPACE \o Join(Tail(outstring))

\* GenericLine with linenumber() called before the test of len(outstring): a command
\* left with no token takes a line number all the same
GenericLineNumbersFirst(outstring, n) ==
    LET ln == IF OUTPUT_LINE_NUMBERS THEN linenumber(n) ELSE [LINENR |-> n, nr |-> 0]
    IN  IF Len(outstring) >= 1
        THEN [LINENR |-> ln.LINENR, lines |-> << Line(ln.nr, Join(outstring)) >>]
        ELSE [LINENR |-> ln.LINENR, lines |-> << >>]

\* lines 471-481: the lines the generic path appends to out, and LINENR after it
GenericLine(outstring, n) ==
    IF Len(outstring) >= 1
    THEN LET ln == IF OUTPUT_LINE_NUMBERS THEN linenumber(n) ELSE [LINENR |-> n, nr |-> 0]
         IN  [LINENR |-> ln.LINENR, lines |-> << Line(ln.nr, Join(outstring)) >>]
    ELSE [LINENR |-> n, lines |-> << >>]

\* the value of out: a str, or the list that out = [] (line 467) makes of it, which
\* the later out += extend character by character
Out(isList, lines) == [isList |-> isList, lines |-> lines]

\* how the body of the loop ends for one command
Outcome(kind, exc, out, lastcommand, currLocation, n, skipped, outstring, lines) ==
    [kind |-> kind, exc |-> exc, out |-> out, lastcommand |-> lastcommand,
     currLocation |-> currLocation, LINENR |-> n, skipped |-> skipped,
     outstring |-> outstring, lines |-> lines]

\* ToolChange with the continue of line 462 lost: after the block the command goes on to
\* the generic end of the loop body and its own line is written
ToolChangeKeepsCode(c, fr, n, skipped, currLocation) ==
    IF SkipToolChange(skipped)
    THEN Outcome("skip", "", fr.out, c.Name, currLocation, n, TRUE, << >>, << >>)
    ELSE LET pre == NumberLines(PRE_TOOL_CHANGE, n)
             tc == NumberLines(TOOL_CHANGE, pre.LINENR)
             own == GenericLine(<< Token("cmd", c.Name, c.Name) >>, tc.LINENR)
             block == pre.lines
                        \o << Line(0, TOOL_CHANGE_NOTIFICATION(fr.obj.ToolLabel)) >>
                        \o tc.lines \o own.lines
         IN  IF ~fr.obj.hasTool
             THEN Outcome("raise", "AttributeError", Out(fr.out.isList, fr.out.lines \o pre.lines),
                          c.Name, currLocation, pre.LINENR, skipped, << >>, pre.lines)
             ELSE Outcome("toolchange", "", Out(fr.out.isList, fr.out.lines \o block),
                          c.Name, currLocation, own.LINENR, skipped, << >>, block)

\* ToolChange with the skip taken before lines 434-435: the skipped M6 leaves
\* lastcommand and currLocation as they were
ToolChangeSkipsEarly(c, fr, n, skipped, currLocation) ==
    IF SkipToolChange(skipped)
    THEN Outcome("skip", "", fr.out, fr.lastcommand, fr.currLocation, n, TRUE, << >>, << >>)
    ELSE LET pre == NumberLines(PRE_TOOL_CHANGE, n)
             tc == NumberLines(TOOL_CHANGE, pre.LINENR)
             block == pre.lines
                        \o << Line(0, TOOL_CHANGE_NOTIFICATION(fr.obj.ToolLabel)) >>
                        \o tc.lines
         IN  IF ~fr.obj.hasTool
             THEN Outcome("raise", "AttributeError", Out(fr.out.isList, fr.out.lines \o pre.lines),
                          c.Name, currLocation, pre.LINENR, skipped, << >>, pre.lines)
             ELSE Outcome("toolchange", "", Out(fr.out.isList, fr.out.lines \o block),
                          c.Name, currLocation, tc.LINENR, skipped, << >>, block)

\* lines 437-462: the tool change, reached with lastcommand and currLocation stored
ToolChange(c, fr, n, skipped, currLocation) ==
    IF SkipToolChange(skipped)
    THEN Outcome("skip", "", fr.out, c.Name, currLocation, n, TRUE, << >>, << >>)
    ELSE LET pre == NumberLines(PRE_TOOL_CHANGE, n)
             tc == NumberLines(TOOL_CHANGE, pre.LINENR)
             block == pre.lines
                        \o << Line(0, TOOL_CHANGE_NOTIFICATION(fr.obj.ToolLabel)) >>
                        \o tc.lines
         IN  IF ~fr.obj.hasTool
             THEN \* pathobj.Tool: AttributeError, after PRE_TOOL_CHANGE took its numbers
                  Outcome("raise", "AttributeError", Out(fr.out.isList, fr.out.lines \o pre.lines),
                          c.Name, currLocation, pre.LINENR, skipped, << >>, pre.lines)
             ELSE Outcome("toolchange", "", Out(fr.out.isList, fr.out.lines \o block),
                          c.Name, currLocation, tc.LINENR, skipped, << >>, block)

\* lines 465-481: the message check and the generic end of the loop body
Generic(c, fr, n, skipped, currLocation, outstring) ==
    LET cleared == c.Name = "message" /\ OUTPUT_COMMENTS = FALSE
        popped == c.Name = "message" /\ ~(OUTPUT_COMMENTS = FALSE)
        out1 == IF cleared THEN Out(TRUE, << >>) ELSE fr.out
        os == IF popped THEN Tail(outstring) ELSE outstring
        g == GenericLine(os, n)
    IN  IF popped /\ outstring = << >>
        THEN \* outstring.pop(0) of an empty list
             Outcome("raise", "IndexError", fr.out, c.Name, currLocation, n, skipped,
                     << >>, << >>)
        ELSE Outcome(IF g.lines = << >> THEN "noline" ELSE "line", "",
                     Out(out1.isList, out1.lines \o g.lines),
                     c.Name, currLocation, g.LINENR, skipped, os, g.lines)

\* lines 387-481: the body of "for c in pathobj.Path.Commands" for the command c, in the
\* frame fr, with LINENR = n and first_tool_change_skipped = skipped
Serialize(c, fr, n, skipped) ==
    LET dropped == Outcome("continue", "", fr.out, fr.lastcommand, fr.currLocation, n,
                           skipped, << >>, << >>)
        os1 == ModalStart(c.Name, fr.lastcommand)
        os2 == IF IsComment(c.Name)
               THEN << Token("cmd", Bracket(c.Name), Bracket(c.Name)) >>
               ELSE os1
        os3 == os2 \o ParamTokens(1, c, fr.currLocation)
        currLocation == Update(fr.currLocation, c.Parameters)
    IN  IF IsComment(c.Name) /\ ~OUTPUT_COMMENTS
        THEN dropped
        ELSE IF IsComment(c.Name) /\ os1 = << >>
        THEN \* outstring.pop() of an empty list
             [dropped EXCEPT !.kind = "raise", !.exc = "IndexError"]
        ELSE IF IsUnsupported(c.Name)
        THEN dropped
        ELSE IF c.Name = "M6"
        THEN ToolChange(c, fr, n, skipped, currLocation)
        ELSE Generic(c, fr, n, skipped, currLocation, os3)

(***************************************************************************)
(* The inputs: commands, path objects, argument strings.                   *)
(***************************************************************************)
\* Path.Command(name, parameters)
Cmd(name, parameters) == [Name |-> name, Parameters |-> parameters]

NoParams == [l \in {} |-> 0]

\* An object of objectslist or of a Group.  An attribute the object may lack is a flag
\* (hasPath, hasGroup, hasTool) or the value "absent" (Active, Base.Active, CoolantMode,
\* Base.CoolantMode).
Leaf(label, commands) ==
    [Label |-> label, hasPath |-> TRUE, hasGroup |-> FALSE, Group |-> << >>,
     Commands |-> commands, Active |-> "True", BaseActive |-> "absent",
     CoolantMode |-> "absent", BaseCoolantMode |-> "absent",
     hasTool |-> TRUE, ToolLabel |-> "T2"]

Group(label, children) ==
    [Leaf(label, << >>) EXCEPT !.hasGroup = TRUE, !.Group = children]

\* an argument string: the flags it gives, the text of --preamble when it gives one, and
\* whether it fails to parse: "ValueError" from shlex.split (an unclosed quote),
\* "SystemExit" from parser.parse_args (an unknown flag)
Args(flags) == [flags |-> flags, hasPreamble |-> FALSE, preamble |-> << >>, err |-> "none"]

Call(argstring, objectslist, filename) ==
    [argstring |-> argstring, objectslist |-> objectslist, filename |-> filename]

G0X1 == Cmd("G0", "X" :> 1)
G0X1Z2 == Cmd("G0", ("X" :> 1) @@ ("Z" :> 2))
G0Home == Cmd("G0", ("X" :> -1) @@ ("F" :> 5))
G1X1F5 == Cmd("G1", ("X" :> 1) @@ ("F" :> 5))
G1X1 == Cmd("G1", "X" :> 1)
G1X2 == Cmd("G1", "X" :> 2)
G1 == Cmd("G1", NoParams)
G99 == Cmd("G99", NoParams)
G99X1 == Cmd("G99", "X" :> 1)
M6T2 == Cmd("M6", "T" :> 2)
CommentA == Cmd("(a)", NoParams)
Message == Cmd("message", NoParams)

\* the commands the generated leaves of SpecLeaf are made of
CommandSet == { G0X1, G0Home, G1X1F5, G1X2, G1, G99X1, M6T2, CommentA, Message }

RECURSIVE SeqsUpTo(_, _)
SeqsUpTo(S, n) ==
    IF n = 0
    THEN { << >> }
    ELSE LET shorter == SeqsUpTo(S, n - 1)
         IN  shorter \cup { Append(q, x) : q \in shorter, x \in S }

\* a job as Path hands it over: tool controller, operation, tool controller, operation
Job ==
    << Leaf("TC1", << CommentA, M6T2 >>),
       Leaf("Profile", << G0X1Z2, G1X1F5, G1X1F5, G1X2 >>),
       Leaf("TC2", << M6T2 >>),
       [Leaf("Pocket", << G1X1, G99, G1X1 >>) EXCEPT !.CoolantMode = "Flood"] >>

\* inactive operations, at the top level and inside compounds, and a compound member
\* that is no path
Nested ==
    << [Leaf("Off", << G1X2 >>) EXCEPT !.Active = "False"],
       Group("Compound",
             << Leaf("In1", << G1X1 >>),
                [Leaf("InOff", << G1X2, M6T2 >>) EXCEPT !.Active = "False"],
                Group("Inner", << [Leaf("In2", << G1X1 >>) EXCEPT !.BaseActive = "False"] >>),
                [Leaf("Stock", << >>) EXCEPT !.hasPath = FALSE] >>),
       [Leaf("BaseOff", << M6T2 >>) EXCEPT !.BaseActive = "False"],
       [Leaf("Mist", << G1X1 >>) EXCEPT !.BaseCoolantMode = "Mist", !.Active = "absent"] >>

Messages == << Leaf("Msg", << G1X1, Message, G1X2 >>) >>

GroupedMessage == << Group("Compound", << Leaf("Msg", << Message >>) >>) >>

Comments == << Leaf("Cmt", << CommentA, CommentA >>) >>

ToolOnly == << Leaf("TC", << M6T2 >>) >>

\* a tool change between two moves of one leaf
Retool == << Leaf("Op", << G1X1, M6T2, G1X2, G1X2 >>) >>

NoTool == << [Leaf("NoTool", << M6T2, M6T2 >>) EXCEPT !.hasTool = FALSE] >>

NotAPath == << Leaf("Op", << G1X1 >>), [Leaf("Sketch", << >>) EXCEPT !.hasPath = FALSE] >>

\* compounds inside compounds, with leaves before and after the inner ones, and an
\* operation with coolant after them
Deep ==
    << Group("A",
             << Group("B",
                      << Leaf("b1", << G0X1 >>),
                         Group("C", << Leaf("c1", << G1X2, G1X1F5 >>) >>),
                         Leaf("b2", << G0X1Z2 >>) >>),
                Leaf("a1", << G1X1, M6T2, M6T2 >>) >>),
       [Leaf("Top2", << G0Home >>) EXCEPT !.CoolantMode = "Mist"] >>

\* the export calls of Spec
SeqCalls ==
    { Call(Args(f), Job, "-") :
        f \in { {}, {"--line-numbers"}, {"--no-comments"}, {"--modal", "--axis-modal"},
                {"--line-numbers", "--no-header", "--inches"},
                {"--line-numbers", "--modal", "--axis-modal"} } }
    \cup { Call(Args(f), Nested, "out.nc") : f \in { {}, {"--line-numbers"}, {"--axis-modal"} } }
    \cup { Call(Args(f), Messages, "-") : f \in { {}, {"--no-comments"} } }
    \cup { Call(Args({"--no-comments"}), GroupedMessage, "-") }
    \cup { Call(Args(f), Comments, "-") : f \in { {}, {"--modal"} } }
    \cup { Call(Args({}), ToolOnly, "-"), Call(Args({}), NotAPath, "out.nc"),
           Call(Args({}), << >>, "out.nc"), Call(Args({"--line-numbers"}), << >>, "-"),
           Call([Args({}) EXCEPT !.hasPreamble = TRUE, !.preamble = << "G17", "G90" >>],
                << >>, "-"),
           Call([Args({"--modal"}) EXCEPT !.err = "ValueError"], Job, "out.nc"),
           Call([Args({"--modal"}) EXCEPT !.err = "SystemExit"], Job, "out.nc") }

\* the export calls of SpecLeaf: one leaf of every sequence of at most MaxCmds commands,
\* under every combination of the four flags that parse reads
LeafCalls ==
    { Call(Args(f), << Leaf("Op", q) >>, "-") :
        f \in SUBSET {"--no-comments", "--line-numbers", "--modal", "--axis-modal"},
        q \in SeqsUpTo(CommandSet, MaxCmds) }
    \cup { Call(Args(f), NoTool, "-") : f \in { {}, {"--line-numbers"} } }
    \cup { Call(Args(f), Retool, "-") : f \in { {}, {"--modal"}, {"--modal", "--axis-modal"} } }
    \cup { Call(Args({"--modal", "--axis-modal"}), Nested, "-") }
    \cup { Call(Args(f), Deep, "-") :
            f \in { {}, {"--no-comments"}, {"--line-numbers", "--axis-modal"} } }
    \cup SeqCalls

(***************************************************************************)
(* The state after the module is imported.                                 *)
(***************************************************************************)
\* how an export call ended: kind = "running" (it has not), "text" (line 337),
\* "None" (lines 216, 224), "raise" (an exception left export)
Result(kind, exc, text) == [kind |-> kind, exc |-> exc, text |-> text]

NoCall == Call(Args({}), << >>, "-")

Init ==
    /\ OUTPUT_COMMENTS = TRUE
    /\ OUTPUT_HEADER = TRUE
    /\ OUTPUT_LINE_NUMBERS = FALSE
    /\ MODAL = FALSE
    /\ OUTPUT_DOUBLES = TRUE
    /\ LINENR = LINENR_START
    /\ UNITS = "G20"
    /\ UNIT_SPEED_FORMAT = "in/min"
    /\ UNIT_FORMAT = "in"
    /\ PRECISION = 7
    /\ PREAMBLE = DefaultPreamble
    /\ first_tool_change_skipped = FALSE
    /\ pc = "idle"
    /\ call = NoCall
    /\ gcode = << >>
    /\ objIdx = 0
    /\ stack = << >>
    /\ result = Result("none", "", << >>)
    /\ file = [written |-> FALSE, text |-> << >>]
    /\ log = << >>
    /\ prev = [valid |-> FALSE, call |-> NoCall, result |-> Result("none", "", << >>)]
    /\ runs = 0

(***************************************************************************)
(* export, lines 213-216, with processArguments, lines 163-211.            *)
(***************************************************************************)
\* "if args.<flag>: GLOBAL = value": the global after it
Override(given, value, old) == IF given THEN value ELSE old

\* ApplyArguments with --axis-modal read the other way round: the flag forces duplicate
\* output on
ApplyArgumentsDoubles(a) ==
    /\ OUTPUT_HEADER' = Override("--no-header" \in a.flags, FALSE, OUTPUT_HEADER)
    /\ OUTPUT_COMMENTS' = Override("--no-comments" \in a.flags, FALSE, OUTPUT_COMMENTS)
    /\ OUTPUT_LINE_NUMBERS' = Override("--line-numbers" \in a.flags, TRUE, OUTPUT_LINE_NUMBERS)
    /\ PRECISION' = Override("--inches" \in a.flags, 4, 3)
    /\ PREAMBLE' = Override(a.hasPreamble, a.preamble, PREAMBLE)
    /\ UNITS' = Override("--inches" \in a.flags, "G20", UNITS)
    /\ UNIT_SPEED_FORMAT' = Override("--inches" \in a.flags, "in/min", UNIT_SPEED_FORMAT)
    /\ UNIT_FORMAT' = Override("--inches" \in a.flags, "in", UNIT_FORMAT)
    /\ MODAL' = Override("--modal" \in a.flags, TRUE, MODAL)
    /\ OUTPUT_DOUBLES' = Override("--axis-modal" \in a.flags, TRUE, OUTPUT_DOUBLES)

\* ApplyArguments with the metric units as the choice of a call without --inches
ApplyArgumentsMetric(a) ==
    /\ OUTPUT_HEADER' = Override("--no-header" \in a.flags, FALSE, OUTPUT_HEADER)
    /\ OUTPUT_COMMENTS' = Override("--no-comments" \in a.flags, FALSE, OUTPUT_COMMENTS)
    /\ OUTPUT_LINE_NUMBERS' = Override("--line-numbers" \in a.flags, TRUE, OUTPUT_LINE_NUMBERS)
    /\ PRECISION' = Override("--inches" \in a.flags, 4, 3)
    /\ PREAMBLE' = Override(a.hasPreamble, a.preamble, PREAMBLE)
    /\ UNITS' = Override("--inches" \in a.flags, "G20", "G21")
    /\ UNIT_SPEED_FORMAT' = Override("--inches" \in a.flags, "in/min", "mm/min")
    /\ UNIT_FORMAT' = Override("--inches" \in a.flags, "in", "mm")
    /\ MODAL' = Override("--modal" \in a.flags, TRUE, MODAL)
    /\ OUTPUT_DOUBLES' = Override("--axis-modal" \in a.flags, FALSE, OUTPUT_DOUBLES)

\* the body of the try of processArguments, once the argument string has parsed
ApplyArguments(a) ==
    /\ OUTPUT_HEADER' = Override("--no-header" \in a.flags, FALSE, OUTPUT_HEADER)
    /\ OUTPUT_COMMENTS' = Override("--no-comments" \in a.flags, FALSE, OUTPUT_COMMENTS)
    /\ OUTPUT_LINE_NUMBERS' = Override("--line-numbers" \in a.flags, TRUE, OUTPUT_LINE_NUMBERS)
    /\ PRECISION' = Override("--inches" \in a.flags, 4, 3)
    /\ PREAMBLE' = Override(a.hasPreamble, a.preamble, PREAMBLE)
    /\ UNITS' = Override("--inches" \in a.flags, "G20", UNITS)
    /\ UNIT_SPEED_FORMAT' = Override("--inches" \in a.flags, "in/min", UNIT_SPEED_FORMAT)
    /\ UNIT_FORMAT' = Override("--inches" \in a.flags, "in", UNIT_FORMAT)
    /\ MODAL' = Override("--modal" \in a.flags, TRUE, MODAL)
    /\ OUTPUT_DOUBLES' = Override("--axis-modal" \in a.flags, FALSE, OUTPUT_DOUBLES)

\* export ends: its locals are gone
Ends(r) ==
    /\ pc' = "idle"
    /\ result' = r
    /\ gcode' = << >>
    /\ objIdx' = 0
    /\ stack' = << >>

\* Export with the overrides applied as the flags are read, before the failure of the
\* argument string is met: a call that fails leaves the flags it gave in force
ExportAppliesFirst(c) ==
    /\ pc = "idle"
    /\ call' = c
    /\ prev' = [valid |-> runs > 0, call |-> call, result |-> result]
    /\ runs' = runs + 1
    /\ log' = << >>
    /\ UNCHANGED << LINENR, first_tool_change_skipped, file >>
    /\ ApplyArguments(c.argstring)
    /\ \/ /\ c.argstring.err = "ValueError"
          /\ Ends(Result("None", "", << >>))
       \/ /\ c.argstring.err = "SystemExit"
          /\ Ends(Result("raise", "SystemExit", << >>))
       \/ /\ c.argstring.err = "none"
          /\ pc' = "begin"
          /\ result' = Result("running", "", << >>)
          /\ UNCHANGED << gcode, objIdx, stack >>

\* export(objectslist, filename, argstring) is called
Export(c) ==
    /\ pc = "idle"
    /\ call' = c
    /\ prev' = [valid |-> runs > 0, call |-> call, result |-> result]
    /\ runs' = runs + 1
    /\ log' = << >>
    /\ UNCHANGED << LINENR, first_tool_change_skipped, file >>
    /\ \/ /\ c.argstring.err = "ValueError"     \* caught at line 208: return None
          /\ Ends(Result("None", "", << >>))
          /\ UNCHANGED settings
       \/ /\ c.argstring.err = "SystemExit"     \* no Exception: it leaves export
          /\ Ends(Result("raise", "SystemExit", << >>))
          /\ UNCHANGED settings
       \/ /\ c.argstring.err = "none"
          /\ ApplyArguments(c.argstring)
          /\ pc' = "begin"
          /\ result' = Result("running", "", << >>)
          /\ UNCHANGED << gcode, objIdx, stack >>

(***************************************************************************)
(* export, lines 221-240: the check of the objects, the header, the        *)
(* preamble.                                                               *)
(***************************************************************************)
Blank == Line(0, "")

HeaderTexts ==
    IF OUTPUT_HEADER
    THEN << "[Exported by FreeCAD]", "[Post Processor: wincnc_post]", "[Output Time:now]" >>
    ELSE << >>

PreambleTexts ==
    (IF OUTPUT_COMMENTS THEN << "[Begin Preamble]" >> ELSE << >>)
        \o PREAMBLE
        \o << UNITS \o " [Units: " \o UNIT_FORMAT \o "]" >>

Begin ==
    /\ pc = "begin"
    /\ UNCHANGED << settings, first_tool_change_skipped, call, file, log, prev, runs >>
    /\ \/ /\ \E i \in 1..Len(call.objectslist) : ~call.objectslist[i].hasPath
          /\ Ends(Result("None", "", << >>))
          /\ UNCHANGED LINENR
       \/ /\ \A i \in 1..Len(call.objectslist) : call.objectslist[i].hasPath
          /\ LET h == NumberLines(HeaderTexts, LINENR)
                 p == NumberLines(PreambleTexts, h.LINENR)
             IN  /\ gcode' = h.lines \o (IF OUTPUT_HEADER THEN << Blank >> ELSE << >>)
                                \o p.lines \o << Blank >>
                 /\ LINENR' = p.LINENR
          /\ pc' = "loop"
          /\ objIdx' = 1
          /\ UNCHANGED << stack, result >>

(***************************************************************************)
(* export, lines 242-309: the loop over objectslist.                       *)
(***************************************************************************)
\* lines 245-250
Inactive(obj) == obj.Active = "False" \/ obj.BaseActive = "False"

\* lines 281-286
coolantMode(obj) ==
    IF obj.CoolantMode # "absent" THEN obj.CoolantMode
    ELSE IF obj.BaseCoolantMode # "absent" THEN obj.BaseCoolantMode
    ELSE "None"

\* PreOpTexts with the coolant codes under "if OUTPUT_COMMENTS", like the remark before
\* them: with comments disabled the coolant is not turned on
PreOpTextsCommented(obj) ==
    (IF OUTPUT_COMMENTS
     THEN << "[Operation: " \o obj.Label \o " (" \o UNIT_SPEED_FORMAT \o ")]" >>
     ELSE << >>)
        \o PRE_OPERATION
        \o (IF OUTPUT_COMMENTS /\ coolantMode(obj) # "None"
            THEN << "[Coolant On:" \o coolantMode(obj) \o "]" >>
            ELSE << >>)
        \o (IF OUTPUT_COMMENTS /\ coolantMode(obj) = "Flood" THEN << "M8" >> ELSE << >>)
        \o (IF OUTPUT_COMMENTS /\ coolantMode(obj) = "Mist" THEN << "M7" >> ELSE << >>)

\* lines 274-295: the texts before the operation's gcode
PreOpTexts(obj) ==
    (IF OUTPUT_COMMENTS
     THEN << "[Operation: " \o obj.Label \o " (" \o UNIT_SPEED_FORMAT \o ")]" >>
     ELSE << >>)
        \o PRE_OPERATION
        \o (IF OUTPUT_COMMENTS /\ coolantMode(obj) # "None"
            THEN << "[Coolant On:" \o coolantMode(obj) \o "]" >>
            ELSE << >>)
        \o (IF coolantMode(obj) = "Flood" THEN << "M8" >> ELSE << >>)
        \o (IF coolantMode(obj) = "Mist" THEN << "M7" >> ELSE << >>)

\* lines 305-309: the texts after the operation's gcode
PostOpTexts(obj) ==
    IF coolantMode(obj) # "None"
    THEN (IF OUTPUT_COMMENTS THEN << "[Coolant Off:" \o coolantMode(obj) \o "]" >> ELSE << >>)
            \o << "M9" >>
    ELSE << >>

\* NewFrame with firstmove taken for the last command as well as for the location
NewFrameFirstMove(obj) ==
    [obj |-> obj, i |-> 1, out |-> Out(FALSE, << >>), lastcommand |-> "G0",
     currLocation |-> firstmove]

\* lines 359-368: the locals of a call of parse
NewFrame(obj) ==
    [obj |-> obj, i |-> 1, out |-> Out(FALSE, << >>), lastcommand |-> None,
     currLocation |-> firstmove]

\* the loop of the frame has run out (lines 373, 379, 385)
Finished(fr) ==
    IF fr.obj.hasGroup
    THEN fr.i > Len(fr.obj.Group)
    ELSE ~fr.obj.hasPath \/ fr.i > Len(fr.obj.Commands)

\* lines 245-250: continue
SkipInactive ==
    /\ pc = "loop"
    /\ objIdx <= Len(call.objectslist)
    /\ Inactive(call.objectslist[objIdx])
    /\ objIdx' = objIdx + 1
    /\ UNCHANGED << globals, pc, call, gcode, stack, result, file, log, prev, runs >>

\* lines 274-298, up to the call parse(obj)
OperationBegin ==
    /\ pc = "loop"
    /\ objIdx <= Len(call.objectslist)
    /\ ~Inactive(call.objectslist[objIdx])
    /\ LET obj == call.objectslist[objIdx]
           t == NumberLines(PreOpTexts(obj), LINENR)
       IN  /\ gcode' = gcode \o t.lines
           /\ LINENR' = t.LINENR
           /\ stack' = << NewFrame(obj) >>
    /\ pc' = "parse"
    /\ UNCHANGED << settings, first_tool_change_skipped, call, objIdx, result, file, log,
                    prev, runs >>

(***************************************************************************)
(* parse, lines 349-483.                                                   *)
(***************************************************************************)
Top == stack[Len(stack)]

\* the stack with its top frame replaced
WithTop(fr) == [stack EXCEPT ![Len(stack)] = fr]

\* what the history keeps of the frame and the globals around one command
Snapshot(lastcommand, currLocation, n, skipped, out) ==
    [lastcommand |-> lastcommand, currLocation |-> currLocation, LINENR |-> n,
     skipped |-> skipped, out |-> out]

\* lines 373-374: "for p in pathobj.Group: out += parse(p)", the call
ParseGroup ==
    /\ pc = "parse"
    /\ Top.obj.hasGroup
    /\ Top.i <= Len(Top.obj.Group)
    /\ stack' = Append(stack, NewFrame(Top.obj.Group[Top.i]))
    /\ UNCHANGED << globals, pc, call, gcode, objIdx, result, file, log, prev, runs >>

\* lines 385-481: one turn of "for c in pathobj.Path.Commands"
ParseCommand ==
    /\ pc = "parse"
    /\ ~Top.obj.hasGroup
    /\ Top.obj.hasPath
    /\ Top.i <= Len(Top.obj.Commands)
    /\ LET c == Top.obj.Commands[Top.i]
           r == Serialize(c, Top, LINENR, first_tool_change_skipped)
           entry == [top |-> objIdx, leaf |-> Top.obj, depth |-> Len(stack), idx |-> Top.i,
                     c |-> c,
                     kind |-> r.kind, exc |-> r.exc, outstring |-> r.outstring,
                     lines |-> r.lines,
                     pre |-> Snapshot(Top.lastcommand, Top.currLocation, LINENR,
                                      first_tool_change_skipped, Top.out),
                     post |-> Snapshot(r.lastcommand, r.currLocation, r.LINENR,
                                       r.skipped, r.out)]
       IN  /\ log' = Append(log, entry)
           /\ LINENR' = r.LINENR
           /\ first_tool_change_skipped' = r.skipped
           /\ \/ /\ r.kind = "raise"
                 /\ Ends(Result("raise", r.exc, << >>))
              \/ /\ r.kind # "raise"
                 /\ stack' = WithTop([Top EXCEPT !.i = @ + 1, !.out = r.out,
                                                 !.lastcommand = r.lastcommand,
                                                 !.currLocation = r.currLocation])
                 /\ UNCHANGED << pc, gcode, objIdx, result >>
    /\ UNCHANGED << settings, call, file, prev, runs >>

\* ParseReturn with "out = parse(p) + out": what a member returns is put before what the
\* members ahead of it returned
ParseReturnPrepends ==
    /\ pc = "parse"
    /\ Len(stack) > 1
    /\ Finished(Top)
    /\ LET parent == stack[Len(stack) - 1]
       IN  \/ /\ Top.out.isList
              /\ Ends(Result("raise", "TypeError", << >>))
           \/ /\ ~Top.out.isList
              /\ stack' = [SubSeq(stack, 1, Len(stack) - 1) EXCEPT ![Len(stack) - 1] =
                              [parent EXCEPT !.i = @ + 1,
                                             !.out = Out(parent.out.isList,
                                                         Top.out.lines \o parent.out.lines)]]
              /\ UNCHANGED << pc, gcode, objIdx, result >>
    /\ UNCHANGED << globals, call, file, log, prev, runs >>

\* lines 374-375, 380, 483: a nested call of parse returns to "out += parse(p)"
ParseReturn ==
    /\ pc = "parse"
    /\ Len(stack) > 1
    /\ Finished(Top)
    /\ LET parent == stack[Len(stack) - 1]
       IN  \/ /\ Top.out.isList      \* str += list: TypeError
              /\ Ends(Result("raise", "TypeError", << >>))
           \/ /\ ~Top.out.isList
              /\ stack' = [SubSeq(stack, 1, Len(stack) - 1) EXCEPT ![Len(stack) - 1] =
                              [parent EXCEPT !.i = @ + 1,
                                             !.out = Out(parent.out.isList,
                                                         parent.out.lines \o Top.out.lines)]]
              /\ UNCHANGED << pc, gcode, objIdx, result >>
    /\ UNCHANGED << globals, call, file, log, prev, runs >>

\* lines 298-309: parse(obj) returns to export; the post_op, the coolant off
OperationEnd ==
    /\ pc = "parse"
    /\ Len(stack) = 1
    /\ Finished(Top)
    /\ \/ /\ Top.out.isList          \* gcode += parse(obj): TypeError
          /\ Ends(Result("raise", "TypeError", << >>))
          /\ UNCHANGED LINENR
       \/ /\ ~Top.out.isList
          /\ LET post == NumberLines(POST_OPERATION, LINENR)
                 off == NumberLines(PostOpTexts(Top.obj), post.LINENR)
             IN  /\ gcode' = gcode \o Top.out.lines \o post.lines \o << Blank >> \o off.lines
                 /\ LINENR' = off.LINENR
          /\ objIdx' = objIdx + 1
          /\ stack' = << >>
          /\ pc' = "loop"
          /\ UNCHANGED result
    /\ UNCHANGED << settings, first_tool_change_skipped, call, file, log, prev, runs >>

\* lines 311-337: the postamble, the file, return final
ExportEnd ==
    /\ pc = "loop"
    /\ objIdx > Len(call.objectslist)
    /\ LET post == NumberLines(POSTAMBLE, LINENR)
           final == gcode \o (IF OUTPUT_COMMENTS THEN << Line(0, "[Postamble]") >> ELSE << >>)
                          \o post.lines
       IN  /\ LINENR' = post.LINENR
           /\ file' = IF call.filename # "-" THEN [written |-> TRUE, text |-> final] ELSE file
           /\ Ends(Result("text", "", final))
    /\ UNCHANGED << settings, first_tool_change_skipped, call, log, prev, runs >>

(***************************************************************************)
(* The specifications.  Spec: a process that calls export up to MaxRuns    *)
(* times, with the calls of SeqCalls.  SpecLeaf: the first call of export  *)
(* in a process, with the calls of LeafCalls.                              *)
(***************************************************************************)
ExportSeq == runs < MaxRuns /\ \E c \in SeqCalls : Export(c)

ExportLeaf == runs = 0 /\ \E c \in LeafCalls : Export(c)

Run ==
    \/ Begin
    \/ SkipInactive
    \/ OperationBegin
    \/ ParseGroup
    \/ ParseCommand
    \/ ParseReturn
    \/ OperationEnd
    \/ ExportEnd

Next == ExportSeq \/ Run

NextLeaf == ExportLeaf \/ Run

Spec == Init /\ [][Next]_vars

SpecLeaf == Init /\ [][NextLeaf]_vars

(***************************************************************************)
(* What the claims speak of.                                               *)
(***************************************************************************)
\* the line numbers of a text, in the order of its lines
RECURSIVE Numbers(_)
Numbers(text) ==
    IF text = << >> THEN << >>
    ELSE (IF Head(text).nr # 0 THEN << Head(text).nr >> ELSE << >>) \o Numbers(Tail(text))

\* each number is the one before it plus the increment
StepsByIncrement(ns) == \A k \in 1..(Len(ns) - 1) : ns[k + 1] = ns[k] + LINENR_STEP

\* the token list carries the command name
HasName(outstring, name) ==
    \E k \in 1..Len(outstring) : outstring[k].k = "cmd" /\ outstring[k].s = name

\* the token list carries the parameter letter
HasLetter(outstring, letter) ==
    \E k \in 1..Len(outstring) : outstring[k].k = "param" /\ outstring[k].l = letter

AxisLetters == {"X", "Y", "Z", "A", "B", "C"}

\* log[i] and log[i + 1] are consecutive commands of one leaf
SameLeaf(i) ==
    /\ i + 1 <= Len(log)
    /\ log[i + 1].leaf = log[i].leaf
    /\ log[i + 1].depth = log[i].depth
    /\ log[i + 1].idx = log[i].idx + 1

\* a command that takes the generic path to its line: no comment, G99, M6 or message
Ordinary(c) == ~IsComment(c.Name) /\ c.Name \notin {"G99", "M6", "message"}

\* the two commands give the same value for the axis letter
SharedAxis(c, d, letter) ==
    /\ letter \in DOMAIN c.Parameters
    /\ letter \in DOMAIN d.Parameters
    /\ c.Parameters[letter] = d.Parameters[letter]

\* every leaf below the object has a tool descriptor
RECURSIVE HasTools(_)
HasTools(obj) ==
    IF obj.hasGroup
    THEN \A k \in 1..Len(obj.Group) : HasTools(obj.Group[k])
    ELSE obj.hasTool

\* an export call has ended
Returned == pc = "idle" /\ runs > 0

\* the number of lines of the block that replaces a tool change
ToolChangeLines == Len(PRE_TOOL_CHANGE) + 1 + Len(TOOL_CHANGE)

\* the word occurs in the text, from position k on
RECURSIVE ContainsFrom(_, _, _)
ContainsFrom(text, word, k) ==
    IF k + Len(word) - 1 > Len(text) THEN FALSE
    ELSE IF SubSeq(text, k, k + Len(word) - 1) = word THEN TRUE
    ELSE ContainsFrom(text, word, k + 1)

\* the word occurs in the text of the line
Contains(line, word) == ContainsFrom(line.text, word, 1)

\* the command gives, for the axis letter, the value currLocation holds for it
GivesTracked(e, letter) ==
    /\ letter \in DOMAIN e.c.Parameters
    /\ letter \in DOMAIN e.pre.currLocation
    /\ e.pre.currLocation[letter] = e.c.Parameters[letter]

\* the texts of a sequence of lines
Texts(lines) == [k \in 1..Len(lines) |-> lines[k].text]

\* the commands below an object in the order of a depth-first walk that takes the
\* members of a group from first to last; t is the index of the top-level object
RECURSIVE Walk(_, _)
RECURSIVE WalkMembers(_, _, _)
Walk(obj, t) ==
    IF obj.hasGroup THEN WalkMembers(obj.Group, 1, t)
    ELSE IF ~obj.hasPath THEN << >>
    ELSE [k \in 1..Len(obj.Commands) |->
            [top |-> t, leaf |-> obj, idx |-> k, c |-> obj.Commands[k]]]

WalkMembers(members, k, t) ==
    IF k > Len(members) THEN << >>
    ELSE Walk(members[k], t) \o WalkMembers(members, k + 1, t)

\* the walk of the objects of the list that export does not skip, from the t-th on
RECURSIVE WalkAll(_, _)
WalkAll(objs, t) ==
    IF t > Len(objs) THEN << >>
    ELSE (IF Inactive(objs[t]) THEN << >> ELSE Walk(objs[t], t)) \o WalkAll(objs, t + 1)

\* the commands parse has handled, in the order it handled them
Visited ==
    [i \in 1..Len(log) |->
        [top |-> log[i].top, leaf |-> log[i].leaf, idx |-> log[i].idx, c |-> log[i].c]]

IsPrefix(p, q) == Len(p) <= Len(q) /\ p = SubSeq(q, 1, Len(p))

\* the lines the commands below the t-th object of the list have produced, in the order
\* of the commands (from log[i] on)
RECURSIVE CommandLines(_, _)
CommandLines(t, i) ==
    IF i > Len(log) THEN << >>
    ELSE (IF log[i].top = t THEN log[i].lines ELSE << >>) \o CommandLines(t, i + 1)

\* the part of a returned text that belongs to the t-th object of the list: what export
\* writes from "do the pre_op" to the coolant off
SegmentLen(t) ==
    IF Inactive(call.objectslist[t]) THEN 0
    ELSE Len(PreOpTexts(call.objectslist[t])) + Len(CommandLines(t, 1))
            + Len(POST_OPERATION) + 1 + Len(PostOpTexts(call.objectslist[t]))

RECURSIVE SegmentStart(_)
SegmentStart(t) ==
    IF t = 1
    THEN Len(HeaderTexts) + (IF OUTPUT_HEADER THEN 1 ELSE 0) + Len(PreambleTexts) + 1
    ELSE SegmentStart(t - 1) + SegmentLen(t - 1)

Segment(t) == SubSeq(result.text, SegmentStart(t) + 1, SegmentStart(t) + SegmentLen(t))

\* where in its segment the lines of the commands of the t-th object begin and end
FirstCommandLine(t) == Len(PreOpTexts(call.objectslist[t])) + 1

LastCommandLine(t) == Len(PreOpTexts(call.objectslist[t])) + Len(CommandLines(t, 1))

\* the coolant codes
CoolantCodes == {"M7", "M8", "M9"}

\* the code that turns the coolant of the mode on
CoolantOn(mode) == IF mode = "Flood" THEN "M8" ELSE IF mode = "Mist" THEN "M7" ELSE ""

\* the commands before log[i] whose line, written to the output, carries the letter
EmittedBefore(i, letter) ==
    { j \in 1..(i - 1) : log[j].kind = "line" /\ HasLetter(log[j].outstring, letter) }

\* the value the output last carries for the letter before log[i]
LastEmitted(i, letter) ==
    LET j == CHOOSE j \in EmittedBefore(i, letter) :
                    \A k \in EmittedBefore(i, letter) : k <= j
    IN  log[j].c.Parameters[letter]

\* log[i] gives the letter and its tokens lack it for no other reason than the
\* duplicate check: the command takes the generic path, and a feed is positive and not
\* that of a rapid move
Omitted(i, letter) ==
    /\ Ordinary(log[i].c)
    /\ letter \in DOMAIN log[i].c.Parameters
    /\ ~HasLetter(log[i].outstring, letter)
    /\ letter = "F" => (log[i].c.Name \notin {"G0", "G00"} /\ log[i].c.Parameters[letter] > 0)

\* the letters whose value is a length
LengthLetters == {"X", "Y", "Z", "A", "B", "C", "I", "J", "Q", "R", "L", "P"}

\* the token of the letter is the value the command gives, taken as mm (as mm/s for a
\* feed) and written in inches (in inches per minute) with PRECISION decimals
InInches(tok, c) ==
    LET v == c.Parameters[tok.l]
    IN  /\ tok.l \in LengthLetters => tok.s = tok.l \o FormatFixed(10 * v, 254, PRECISION)
        /\ tok.l = "F" => tok.s = tok.l \o FormatFixed(600 * v, 254, PRECISION)

(***************************************************************************)
(* The claims.                                                             *)
(***************************************************************************)
\* C1: two export calls in one process with identical containers, destination and
\* argument string end alike: the second returns the text the first returned.
C1_Idempotent ==
    (Returned /\ prev.valid /\ prev.call = call) => result = prev.result

\* C2: with skip-first-tool-change enabled, in every export run the first M6 met
\* produces no line and sets the skip flag, and every later M6 of the run produces the
\* whole pre-tool-change / notification / measurement block (leaves with a tool).
C2_FirstToolChangeSkippedEachRun ==
    \A i \in 1..Len(log) :
        (log[i].c.Name = "M6" /\ log[i].leaf.hasTool /\ SKIP_FIRST_TOOLCHANGE) =>
            IF \A j \in 1..(i - 1) : log[j].c.Name # "M6"
            THEN log[i].lines = << >> /\ log[i].post.skipped
            ELSE Len(log[i].lines) = ToolChangeLines

\* C3: with line numbering enabled, the first line number of the text an export returns
\* is the starting value of the line counter.
C3_FirstNumberIsBase ==
    (Returned /\ result.kind = "text" /\ OUTPUT_LINE_NUMBERS /\ Numbers(result.text) # << >>)
        => Numbers(result.text)[1] = LINENR_START

\* C4: with line numbering enabled the line numbers of the text an export returns go up
\* by exactly the increment from one numbered line to the next; a command that ends
\* with no token (G99, a disabled comment, the skipped M6, a command whose tokens are
\* all suppressed) takes no line number; and while line numbering is disabled the line
\* counter does not change.
C4_LineNumbersByIncrement ==
    /\ [](/\ result.kind = "text" => StepsByIncrement(Numbers(result.text))
          /\ \A i \in 1..Len(log) :
                (log[i].kind \in {"continue", "skip", "noline"})
                    => log[i].post.LINENR = log[i].pre.LINENR)
    /\ [][(~OUTPUT_LINE_NUMBERS') => LINENR' = LINENR]_vars

\* C4, witness: a numbered text has been returned for a leaf in which one command
\* produced a line and another ended with no token.
C4_Witness ==
    /\ Returned /\ result.kind = "text" /\ OUTPUT_LINE_NUMBERS
    /\ Len(Numbers(result.text)) >= 2
    /\ \E i, j \in 1..Len(log) : log[i].kind = "line" /\ log[j].kind = "noline"
    /\ \E i \in 1..Len(log) : log[i].kind = "skip"
    /\ \E i \in 1..Len(log) : log[i].kind = "continue"

\* C5: the settings in effect during an export call are the built-in defaults overridden
\* by the flags of that call's argument string alone.
C5_SettingsFromThisCallOnly ==
    pc \in {"begin", "loop", "parse"} =>
        /\ OUTPUT_HEADER = ("--no-header" \notin call.argstring.flags)
        /\ OUTPUT_COMMENTS = ("--no-comments" \notin call.argstring.flags)
        /\ OUTPUT_LINE_NUMBERS = ("--line-numbers" \in call.argstring.flags)
        /\ MODAL = ("--modal" \in call.argstring.flags)
        /\ OUTPUT_DOUBLES = ("--axis-modal" \notin call.argstring.flags)
        /\ PREAMBLE = IF call.argstring.hasPreamble THEN call.argstring.preamble
                      ELSE DefaultPreamble

\* C6, as claimed: of two consecutive commands of a leaf with the same name, with modal
\* mode on the line of the second does not carry the name, and with modal mode off the
\* lines of both carry it (looked at once export has returned its text).
C6_ModalSuppressionAnyCommand ==
    (Returned /\ result.kind = "text") =>
        \A i \in 1..Len(log) :
            (SameLeaf(i) /\ log[i].c.Name = log[i + 1].c.Name) =>
                /\ MODAL => ~HasName(log[i + 1].outstring, log[i + 1].c.Name)
                /\ ~MODAL => /\ HasName(log[i].outstring, log[i].c.Name)
                             /\ HasName(log[i + 1].outstring, log[i + 1].c.Name)

\* C6, amended: of two consecutive commands of a leaf with the same name, with modal
\* mode on the line of the second (if it has one) does not carry the name; with modal
\* mode off the lines of both carry it, unless the name is a comment, G99, M6 or
\* message, which never reach the output as the token of an ordinary command.
C6_ModalSuppression ==
    \A i \in 1..Len(log) :
        (SameLeaf(i) /\ log[i].c.Name = log[i + 1].c.Name) =>
            /\ MODAL => ~HasName(log[i + 1].outstring, log[i + 1].c.Name)
            /\ (~MODAL /\ Ordinary(log[i].c)) =>
                    /\ log[i].kind = "line" /\ log[i + 1].kind = "line"
                    /\ HasName(log[i].outstring, log[i].c.Name)
                    /\ HasName(log[i + 1].outstring, log[i + 1].c.Name)

\* C6, witness: with modal mode on, the second of two G1 commands has produced a line
\* of parameters only.
C6_Witness ==
    \E i \in 1..Len(log) :
        /\ SameLeaf(i) /\ log[i].c.Name = "G1" /\ log[i + 1].c.Name = "G1"
        /\ MODAL
        /\ log[i + 1].kind = "line"
        /\ HasLetter(log[i + 1].outstring, "X")
        /\ ~HasName(log[i + 1].outstring, "G1")

C8_InactiveLeafSkipped ==
    /\ \A k \in 1..Len(stack) : ~Inactive(stack[k].obj)
    /\ \A i \in 1..Len(log) : ~Inactive(log[i].leaf)

\* C9: when the argument string parses, every object of the list is a path and every
\* leaf has its tool, export returns a text: no command makes it raise.
C9_NeverRaises ==
    (/\ Returned
     /\ call.argstring.err = "none"
     /\ \A k \in 1..Len(call.objectslist) :
            call.objectslist[k].hasPath /\ HasTools(call.objectslist[k]))
        => result.kind = "text"

\* C10: a G99 command is dropped under every configuration: no token, no line, no line
\* number, and lastcommand, currLocation and out stay as they were.
C10_G99Dropped ==
    \A i \in 1..Len(log) :
        log[i].c.Name = "G99" =>
            /\ log[i].kind = "continue"
            /\ log[i].outstring = << >>
            /\ log[i].lines = << >>
            /\ log[i].post = log[i].pre

\* C10, witness: with modal mode and line numbering on, a G99 that carries X has been
\* handled right after a command that produced a line.
C10_Witness ==
    \E i \in 2..Len(log) :
        /\ log[i].c = G99X1
        /\ log[i - 1].kind = "line"
        /\ log[i].pre.lastcommand = log[i - 1].c.Name
        /\ log[i].pre.currLocation["X"] # 1
        /\ MODAL /\ OUTPUT_LINE_NUMBERS

\* C11: the tool-change code is never written: whatever the configuration, no M6
\* command, skipped or not, leaves a token M6 in its token list or a line that carries
\* M6 among the lines it adds to the output.
C11_NoToolChangeCode ==
    \A i \in 1..Len(log) :
        log[i].c.Name = "M6" =>
            /\ ~HasName(log[i].outstring, "M6")
            /\ \A k \in 1..Len(log[i].lines) : ~Contains(log[i].lines[k], "M6")
            /\ log[i].kind \in {"skip", "toolchange", "raise"}

\* C11, witness: in one run, with modal mode on, a first M6 has been skipped and a later
\* M6 has produced the whole block.
C11_Witness ==
    \E i, j \in 1..Len(log) :
        /\ i < j
        /\ log[i].c.Name = "M6" /\ log[i].kind = "skip"
        /\ log[j].c.Name = "M6" /\ log[j].kind = "toolchange"
        /\ Len(log[j].lines) = ToolChangeLines
        /\ MODAL

\* C12: a call of export whose argument string fails to parse ends at once: it returns
\* no text (it returns None, or the failure leaves export as an exception), the
\* destination is not written, and every setting, the line counter and the skip flag
\* are as they were before the call.
C12_ParseFailureAborts ==
    [][(runs' = runs + 1 /\ call'.argstring.err # "none") =>
            /\ UNCHANGED << settings, LINENR, first_tool_change_skipped, file >>
            /\ pc' = "idle"
            /\ result'.kind \in {"None", "raise"}
            /\ result'.text = << >>]_vars

\* C12, witness: a call that gave --modal in an argument string that fails to parse has
\* returned None after another failed call, to a destination that is a file, and modal
\* mode is off.
C12_Witness ==
    /\ Returned /\ prev.valid
    /\ prev.call.argstring.err = "SystemExit"
    /\ call.argstring.err = "ValueError"
    /\ "--modal" \in call.argstring.flags
    /\ call.filename # "-"
    /\ result.kind = "None"
    /\ ~MODAL /\ ~file.written

C14_DepthFirstOrder ==
    /\ IsPrefix(Visited, WalkAll(call.objectslist, 1))
    /\ (Returned /\ result.kind = "text") =>
            /\ Visited = WalkAll(call.objectslist, 1)
            /\ \A t \in 1..Len(call.objectslist) :
                    ~Inactive(call.objectslist[t]) =>
                        SubSeq(Segment(t), FirstCommandLine(t), LastCommandLine(t))
                            = CommandLines(t, 1)
            /\ Len(result.text) = SegmentStart(Len(call.objectslist) + 1)
                                    + (IF OUTPUT_COMMENTS THEN 1 ELSE 0) + Len(POSTAMBLE)

\* C14, witness: a text has been returned for compounds nested three deep, in which a
\* leaf at depth four was handled between two leaves at depth three and a leaf at depth
\* two after them, each with a line of its own.
C14_Witness ==
    /\ Returned /\ result.kind = "text"
    /\ \E i, j, k, l \in 1..Len(log) :
            /\ i < j /\ j < k /\ k < l
            /\ log[i].depth = 3 /\ log[j].depth = 4 /\ log[k].depth = 3 /\ log[l].depth = 2
            /\ log[i].top = log[l].top
            /\ \A m \in {i, j, k, l} : log[m].kind = "line"
            /\ log[i].lines # log[j].lines /\ log[j].lines # log[k].lines

C16_MessageDropsOnlyItself ==
    \A i \in 1..Len(log) :
        (/\ log[i].c.Name = "message"
         /\ ~OUTPUT_COMMENTS
         /\ log[i].pre.out.lines # << >>) =>
            /\ log[i].lines = << >>
            /\ log[i].post.out = log[i].pre.out

\* C17, as claimed: the first tool change, skipped, changes nothing but the skip flag:
\* lastcommand and currLocation are after it what they were before it.
C17_SkippedToolChangeUpdatesNothing ==
    \A i \in 1..Len(log) :
        log[i].kind = "skip" =>
            /\ log[i].post.skipped
            /\ log[i].post.lastcommand = log[i].pre.lastcommand
            /\ log[i].post.currLocation = log[i].pre.currLocation

\* C17, amended: the first tool change, skipped, writes nothing and takes no line number,
\* and sets the skip flag; but it is stored as the last command and its parameters are
\* merged into currLocation, so the command of the leaf that follows it, if it is no
\* M6, carries its name with modal mode on, whatever the command before the M6 was.
C17_SkippedToolChangeStored ==
    \A i \in 1..Len(log) :
        log[i].kind = "skip" =>
            /\ ~log[i].pre.skipped /\ log[i].post.skipped
            /\ log[i].lines = << >>
            /\ log[i].post.out = log[i].pre.out
            /\ log[i].post.LINENR = log[i].pre.LINENR
            /\ log[i].post.lastcommand = "M6"
            /\ \A l \in DOMAIN log[i].c.Parameters :
                    log[i].post.currLocation[l] = log[i].c.Parameters[l]
            /\ \A l \in DOMAIN log[i].pre.currLocation \ DOMAIN log[i].c.Parameters :
                    log[i].post.currLocation[l] = log[i].pre.currLocation[l]
            /\ (SameLeaf(i) /\ Ordinary(log[i + 1].c)) =>
                    /\ log[i + 1].pre.lastcommand = "M6"
                    /\ HasName(log[i + 1].outstring, log[i + 1].c.Name)

\* C17, witness: with modal mode on, a G1 that follows the skipped M6, itself after a
\* G1, has produced a line that carries G1, and the G1 after it a line that does not.
C17_Witness ==
    \E i \in 2..Len(log) :
        /\ MODAL
        /\ SameLeaf(i - 1) /\ SameLeaf(i) /\ SameLeaf(i + 1)
        /\ log[i - 1].c.Name = "G1" /\ log[i - 1].kind = "line"
        /\ log[i].c.Name = "M6" /\ log[i].kind = "skip"
        /\ "T" \notin DOMAIN log[i].pre.currLocation
        /\ log[i + 1].c.Name = "G1" /\ HasName(log[i + 1].outstring, "G1")
        /\ log[i + 2].c.Name = "G1" /\ log[i + 2].kind = "line"
        /\ ~HasName(log[i + 2].outstring, "G1")

C19_OmittedOnlyIfEmitted ==
    \A i \in 1..Len(log) : \A letter \in AxisLetters \cup {"F"} :
        (~OUTPUT_DOUBLES /\ Omitted(i, letter)) =>
            /\ EmittedBefore(i, letter) # {}
            /\ LastEmitted(i, letter) = log[i].c.Parameters[letter]

\* C20: whatever calls of export have been made, with whatever flags, the unit code is
\* G20 and the units are in and in/min: every length and feed written is the inch, or
\* inch per minute, value, and a returned text has the line of G20 and no line that
\* names G21 or mm.
C20_AlwaysInches ==
    /\ UNITS = "G20" /\ UNIT_FORMAT = "in" /\ UNIT_SPEED_FORMAT = "in/min"
    /\ \A i \in 1..Len(log) : \A k \in 1..Len(log[i].outstring) :
            log[i].outstring[k].k = "param" => InInches(log[i].outstring[k], log[i].c)
    /\ (Returned /\ result.kind = "text") =>
            /\ \E k \in 1..Len(result.text) : result.text[k].text = "G20 [Units: in]"
            /\ \A k \in 1..Len(result.text) :
                    ~Contains(result.text[k], "G21") /\ ~Contains(result.text[k], "mm")

\* C20, witness: after a call given --inches, a call without it has returned a text
\* with the line of G20, in which X = 1 mm was written as X0.039 and F = 5 mm/s as
\* F11.811.
C20_Witness ==
    /\ Returned /\ result.kind = "text" /\ prev.valid
    /\ "--inches" \in prev.call.argstring.flags
    /\ "--inches" \notin call.argstring.flags
    /\ \E k \in 1..Len(result.text) : result.text[k].text = "G20 [Units: in]"
    /\ \E i \in 1..Len(log) : \E k \in 1..Len(log[i].outstring) :
            log[i].outstring[k].s = "X0.039"
    /\ \E i \in 1..Len(log) : \E k \in 1..Len(log[i].outstring) :
            log[i].outstring[k].s = "F11.811"

====
